---------------------------- MODULE Spec2Model ----------------------------
(***************************************************************************)
(* Fixed-step time marching of ODE_solver.ipynb: SimplePendulum.           *)
(* integrate_euler, integrate_RK2 and integrate_RK4.                       *)
(*                                                                         *)
(* Times.  t, tau, dt, T and tmax are Python floats (t starts as 0.0).     *)
(* A float is modelled as an integer number of time quanta that has at     *)
(* most Prec significant bits; every +, - on times rounds to the nearest   *)
(* such number, ties to the even significand, as IEEE-754 binary64 does    *)
(* with 53 bits.  Prec is scaled down so that the rounding cases of        *)
(* binary64 occur within the bounds.  (integrate_RK2 starts from the int   *)
(* 0; called with a float tau, as the notebook does, every sum it forms    *)
(* is a float as well.)                                                    *)
(*                                                                         *)
(* States.  A state is a vector of exact rationals, stored as integers in  *)
(* units of 1/96.  rhs is the caller's collaborator; it is the linear      *)
(* chain rhs(y)[i] = y[i+1], rhs(y)[last] = 0, and any call of it may      *)
(* raise.  Rounding of state values is not modelled.                       *)
(***************************************************************************)
EXTENDS Integers, Sequences, FiniteSets, TLC

\* significand width of a float (53 in binary64)
Prec == 3
\* largest tau and T drawn as arguments, in time quanta
MaxT == 24
\* largest number of loop iterations followed in one run
MaxSteps == 12

Methods == {"euler", "RK2", "RK4"}
Clamping == {"RK2", "RK4"}

---------------------------------------------------------------------------
(* float arithmetic on times *)

RECURSIVE Pow2(_)
Pow2(n) == IF n = 0 THEN 1 ELSE 2 * Pow2(n - 1)

\* spacing of the floats around the magnitude n
RECURSIVE Quantum(_, _)
Quantum(n, q) == IF n < Pow2(Prec) * q THEN q ELSE Quantum(n, 2 * q)

\* round-to-nearest, ties-to-even, of the magnitude n
RoundMag(n) ==
    LET q   == Quantum(n, 1)
        m   == n \div q
        rem == n - m * q
    IN  IF 2 * rem < q THEN m * q
        ELSE IF 2 * rem > q THEN (m + 1) * q
        ELSE IF m % 2 = 0 THEN m * q ELSE (m + 1) * q

Fl(x) == IF x < 0 THEN -RoundMag(-x) ELSE RoundMag(x)

FAdd(a, b) == Fl(a + b)
FSub(a, b) == Fl(a - b)

IsFloat(x) == Fl(x) = x

\* the floats a caller may pass as tau (dt) and T (tmax)
Args == {x \in -1..MaxT : IsFloat(x)}

---------------------------------------------------------------------------
(* state algebra: elementwise addition and scalar multiplication *)

State0 == <<96, 96, 96, 96, 96>>

\* quotient in whole units (every quotient the routines form on the chain
\* rhs is a whole number of units: see QuotientsExact)
DivUnits(a, b) == a \div b

VAdd(u, v) == [i \in DOMAIN u |-> u[i] + v[i]]

\* (num/den) * v
VScale(num, den, v) == [i \in DOMAIN v |-> DivUnits(num * v[i], den)]

\* the right-hand side: the derivative of component i is component i+1
Rhs(y) == [i \in DOMAIN y |-> IF i < Len(y) THEN y[i + 1] ELSE 0]

Last(s) == s[Len(s)]

---------------------------------------------------------------------------
VARIABLES
    method,     \* the routine that was called
    tau0,       \* the tau (dt) argument
    T,          \* the T (tmax) argument
    tau,        \* the local tau, reassigned by the clamp
    t,          \* the local t
    times,      \* times / t_s
    history,    \* history / (theta_s, omega_s)
    pc,         \* "loop", "k1".."k4" (about to call rhs), "done", "raised"
    state_old,  \* local of the iteration
    ks,         \* the derivatives k1.. obtained so far in this iteration
    ret,        \* the returned value, <<>> while nothing was returned
    evals,      \* arguments of the rhs calls that returned, in order
    taus,       \* step size used by each completed step
    clamps,     \* executions of tau = T - t
    nfail       \* rhs calls that raised

vars == <<method, tau0, T, tau, t, times, history, pc, state_old, ks, ret,
          evals, taus, clamps, nfail>>

NoRet == <<>>

\* rhs evaluations per step
Stages(m) == IF m = "euler" THEN 1 ELSE IF m = "RK2" THEN 2 ELSE 4

StagePc == {"k1", "k2", "k3", "k4"}
StageNo(p) == IF p = "k1" THEN 1 ELSE IF p = "k2" THEN 2 ELSE IF p = "k3" THEN 3 ELSE 4
PcOf(i) == IF i = 1 THEN "k1" ELSE IF i = 2 THEN "k2" ELSE IF i = 3 THEN "k3" ELSE "k4"

InitWith(taus0, Ts) ==
    /\ method \in Methods
    /\ tau0 \in taus0
    /\ T \in Ts
    /\ tau = tau0
    /\ t = 0
    /\ times = <<0>>
    /\ history = <<State0>>
    /\ pc = "loop"
    /\ state_old = State0
    /\ ks = <<>>
    /\ ret = NoRet
    /\ evals = <<>>
    /\ taus = <<>>
    /\ clamps = 0
    /\ nfail = 0

Init == InitWith(Args, Args)

---------------------------------------------------------------------------
(* the pieces of one loop iteration *)

\* while t < T  /  while t < tmax
LoopTest(t_, T_) == t_ < T_

\* the comparison without the step added
ClampFiresNoStep(t_, tau_, T_) == t_ > T_

\* if t + tau > T
ClampFires(t_, tau_, T_) == FAdd(t_, tau_) > T_

\* the operands of the subtraction swapped
ClampValueSwapped(t_, T_) == FSub(t_, T_)

\* tau = T - t
ClampValue(t_, T_) == FSub(T_, t_)

\* t += tau  /  t += dt
Advance(t_, tau_) == FAdd(t_, tau_)

\* argument of the i-th rhs call of an integrate_euler iteration
EulerArg(i, s, h, k) == s

\* theta_new = theta + dt * thetadot ; omega_new = omega + dt * omegadot
EulerUpdate(s, h, k) == VAdd(s, VScale(h, 1, k[1]))

\* argument of the i-th rhs call of an integrate_RK2 iteration
RK2Arg(i, s, h, k) ==
    IF i = 1 THEN s ELSE VAdd(s, VScale(h, 2, k[1]))

\* the full update started from the midpoint state
RK2UpdateFromMid(s, h, k) == VAdd(RK2Arg(2, s, h, k), VScale(h, 1, k[2]))

\* state_new = state_old + tau * fdot
RK2Update(s, h, k) == VAdd(s, VScale(h, 1, k[2]))

\* argument of the i-th rhs call of an integrate_RK4 iteration
RK4Arg(i, s, h, k) ==
    IF i = 1 THEN s
    ELSE IF i = 2 THEN VAdd(s, VScale(h, 2, k[1]))
    ELSE IF i = 3 THEN VAdd(s, VScale(h, 2, k[2]))
    ELSE VAdd(s, VScale(h, 1, k[3]))

\* the weights 2, 1, 1, 2 in place of 1, 2, 2, 1
RK4UpdateWeights(s, h, k) ==
    VAdd(s, VScale(h, 6,
        VAdd(VAdd(VAdd(VScale(2, 1, k[1]), k[2]), k[3]), VScale(2, 1, k[4]))))

\* state_new = state_old + tau / 6.0 * (k1 + 2*k2 + 2*k3 + k4)
RK4Update(s, h, k) ==
    VAdd(s, VScale(h, 6,
        VAdd(VAdd(VAdd(k[1], VScale(2, 1, k[2])), VScale(2, 1, k[3])), k[4])))

StageArg(m, i, s, h, k) ==
    IF m = "euler" THEN EulerArg(i, s, h, k)
    ELSE IF m = "RK2" THEN RK2Arg(i, s, h, k)
    ELSE RK4Arg(i, s, h, k)

Update(m, s, h, k) ==
    IF m = "euler" THEN EulerUpdate(s, h, k)
    ELSE IF m = "RK2" THEN RK2Update(s, h, k)
    ELSE RK4Update(s, h, k)

---------------------------------------------------------------------------
(* actions *)

\* The loop test succeeds: read the last stored state and, in integrate_RK2
\* and integrate_RK4, clamp tau.  Control stops before the first rhs call.
Iterate ==
    /\ pc = "loop"
    /\ LoopTest(t, T)
    /\ Len(times) <= MaxSteps
    /\ state_old' = Last(history)
    /\ IF method \in Clamping /\ ClampFires(t, tau, T)
       THEN /\ tau' = ClampValue(t, T)
            /\ clamps' = clamps + 1
       ELSE UNCHANGED <<tau, clamps>>
    /\ ks' = <<>>
    /\ pc' = "k1"
    /\ UNCHANGED <<method, tau0, T, t, times, history, ret, evals, taus, nfail>>

\* The loop test fails: return the lists.
Return ==
    /\ pc = "loop"
    /\ ~LoopTest(t, T)
    /\ pc' = "done"
    /\ ret' = <<times, history>>
    /\ UNCHANGED <<method, tau0, T, tau, t, times, history, state_old, ks,
                   evals, taus, clamps, nfail>>

\* The pending rhs call returns.  After the last call of the iteration the
\* new state is formed, t is advanced and both are appended.  With store
\* FALSE the lists are left as they are.
EvalStep(store) ==
    /\ pc \in StagePc
    /\ LET i   == StageNo(pc)
           arg == StageArg(method, i, state_old, tau, ks)
           k   == Append(ks, Rhs(arg))
       IN  /\ ks' = k
           /\ evals' = IF store THEN Append(evals, arg) ELSE evals
           /\ IF i < Stages(method)
              THEN /\ pc' = PcOf(i + 1)
                   /\ UNCHANGED <<t, times, history, taus>>
              ELSE /\ pc' = "loop"
                   /\ t' = Advance(t, tau)
                   /\ times' = IF store THEN Append(times, t') ELSE times
                   /\ history' = IF store
                                 THEN Append(history, Update(method, state_old, tau, k))
                                 ELSE history
                   /\ taus' = IF store THEN Append(taus, tau) ELSE taus
    /\ UNCHANGED <<method, tau0, T, tau, state_old, ret, clamps, nfail>>

EvalOk == EvalStep(TRUE)

\* the exception caught and the lists built so far returned
EvalRaiseCaught ==
    /\ pc \in StagePc
    /\ pc' = "done"
    /\ ret' = <<times, history>>
    /\ nfail' = nfail + 1
    /\ UNCHANGED <<method, tau0, T, tau, t, times, history, state_old, ks,
                   evals, taus, clamps>>

\* The pending rhs call raises: nothing catches it.
EvalRaise ==
    /\ pc \in StagePc
    /\ pc' = "raised"
    /\ nfail' = nfail + 1
    /\ UNCHANGED <<method, tau0, T, tau, t, times, history, state_old, ks,
                   ret, evals, taus, clamps>>

Next == Iterate \/ Return \/ EvalOk \/ EvalRaise

Spec == Init /\ [][Next]_vars

\* The loop alone, for runs of any length: rhs always returns, tau > 0 and
\* T > 0, and the lists are not kept.  One control flow runs it to the end.
Positive == {x \in Args : x > 0}

InitLive == InitWith(Positive, Positive)

IterateLive ==
    /\ pc = "loop"
    /\ LoopTest(t, T)
    /\ state_old' = Last(history)
    /\ IF method \in Clamping /\ ClampFires(t, tau, T)
       THEN /\ tau' = ClampValue(t, T)
            /\ clamps' = clamps + 1
       ELSE UNCHANGED <<tau, clamps>>
    /\ ks' = <<>>
    /\ pc' = "k1"
    /\ UNCHANGED <<method, tau0, T, t, times, history, ret, evals, taus, nfail>>

EvalLive == EvalStep(FALSE)

NextLive == IterateLive \/ Return \/ EvalLive

LiveSpec == InitLive /\ [][NextLive]_vars /\ WF_vars(NextLive)

---------------------------------------------------------------------------
(* properties *)

Pos == tau0 > 0 /\ T > 0
IsRK == method \in Clamping
NSteps == Len(times) - 1
CeilDiv(a, b) == (a + b - 1) \div b
NoneAbove(hi) == \A i \in DOMAIN times : times[i] <= hi
StrictlyIncreasing == \A i \in 1..(Len(times) - 1) : times[i] < times[i + 1]
NonDecreasing == \A i \in 1..(Len(times) - 1) : times[i] <= times[i + 1]

\* every quotient formed by the completed steps is a whole number of units
QuotientsExact ==
    \A n \in DOMAIN taus :
        LET s == history[n]
            h == taus[n]
            HalfOk(v) == \A i \in DOMAIN v : (h * v[i]) % 2 = 0
            k1 == Rhs(s)
            k2 == Rhs(VAdd(s, VScale(h, 2, k1)))
            k3 == Rhs(VAdd(s, VScale(h, 2, k2)))
            k4 == Rhs(VAdd(s, VScale(h, 1, k3)))
            w  == VAdd(VAdd(VAdd(k1, VScale(2, 1, k2)), VScale(2, 1, k3)), k4)
        IN  /\ method = "RK2" => HalfOk(k1)
            /\ method = "RK4" => /\ HalfOk(k1)
                                 /\ HalfOk(k2)
                                 /\ \A i \in DOMAIN w : (h * w[i]) % 6 = 0

\* C1 as stated: in integrate_RK2 and integrate_RK4, when tau > 0 does not
\* divide T > 0, the last step is clamped to T - t, the final recorded time
\* is T and no recorded time exceeds T.
C1_LastStepClamped ==
    (Pos /\ IsRK /\ pc = "done" /\ T % tau0 # 0) =>
        /\ clamps >= 1
        /\ Last(taus) = T - times[Len(times) - 1]
        /\ Last(times) = T
        /\ NoneAbove(T)

\* C1 as amended: in integrate_RK2 and integrate_RK4, when tau > 0 does not
\* divide T > 0, no recorded time ever exceeds T and the final recorded time
\* is T exactly; the last step is clamped to T - t, unless an unclamped step
\* of the rounded sum t + tau lands on T itself.
C1_FinalTimeIsT ==
    (Pos /\ IsRK /\ T % tau0 # 0) =>
        /\ NoneAbove(T)
        /\ pc = "done" =>
            /\ Last(times) = T
            /\ \/ /\ clamps >= 1
                  /\ Last(taus) = T - times[Len(times) - 1]
               \/ /\ clamps = 0
                  /\ Last(taus) = tau0
                  /\ FAdd(times[Len(times) - 1], tau0) = T

C1_Witness ==
    /\ Pos /\ IsRK /\ T % tau0 # 0
    /\ pc = "done"
    /\ clamps = 1
    /\ Len(times) >= 4
    /\ Last(taus) < tau0
    /\ Last(times) = T

\* C2: in each routine, when tau > 0 divides T > 0 exactly, the loop takes
\* exactly T/tau steps, the final recorded time is T, tau is never
\* reassigned, and the first sample is (0, initial state).
C2_ExactSteps ==
    (Pos /\ pc = "done" /\ T % tau0 = 0) =>
        /\ NSteps = T \div tau0
        /\ Last(times) = T
        /\ clamps = 0
        /\ tau = tau0
        /\ times[1] = 0
        /\ history[1] = State0

\* C3: for tau > 0 and T > 0 the recorded times start at 0, are strictly
\* increasing, and the returned sequence has ceil(T/tau) + 1 entries.
C3_TimesShape ==
    Pos =>
        /\ times[1] = 0
        /\ StrictlyIncreasing
        /\ pc = "done" => Len(ret[1]) = CeilDiv(T, tau0) + 1

\* C4: in all three routines, for tau > 0 and T > 0, the recorded times are
\* non-decreasing and none exceeds T.
C4_TimesBounded ==
    Pos => (NonDecreasing /\ NoneAbove(T))

\* C5: a call with tau <= 0 or T <= 0 is rejected at entry: it takes no step,
\* makes no rhs evaluation and returns no trajectory.
C5_Rejected ==
    (tau0 <= 0 \/ T <= 0) =>
        /\ pc \notin StagePc
        /\ pc # "done"
        /\ NSteps = 0
        /\ evals = <<>>
        /\ ret = NoRet

\* C6: an rhs call that raises ends the run at that call: after it there is
\* no rhs evaluation, no append, no second attempt, and nothing is returned.
C6_RhsFailurePropagates ==
    [][nfail' > 0 =>
        /\ pc' = "raised"
        /\ ret' = NoRet
        /\ nfail' = 1
        /\ evals' = evals
        /\ times' = times
        /\ history' = history
        /\ t' = t]_vars

C6_Witness ==
    /\ pc = "raised"
    /\ nfail = 1
    /\ method = "RK4"
    /\ Len(times) = 3
    /\ Len(ks) = 2
    /\ ret = NoRet

\* the four rhs arguments and the new state of one classical RK4 step
RK4Ref(s, h) ==
    LET a1 == s
        k1 == Rhs(a1)
        a2 == VAdd(s, VScale(h, 2, k1))
        k2 == Rhs(a2)
        a3 == VAdd(s, VScale(h, 2, k2))
        k3 == Rhs(a3)
        a4 == VAdd(s, VScale(h, 1, k3))
        k4 == Rhs(a4)
        w  == VAdd(VAdd(VAdd(k1, VScale(2, 1, k2)), VScale(2, 1, k3)), k4)
    IN  [args |-> <<a1, a2, a3, a4>>, new |-> VAdd(s, VScale(h, 6, w))]

\* C7: each integrate_RK4 step makes exactly four rhs evaluations, at s,
\* s + (tau/2) k1, s + (tau/2) k2 and s + tau k3 in this order, s the last
\* stored state and tau the step size used by the step, and appends
\* s + (tau/6)(k1 + 2 k2 + 2 k3 + k4).
C7_RK4Step ==
    method = "RK4" =>
        /\ Len(history) = Len(taus) + 1
        /\ Len(times) = Len(taus) + 1
        /\ Len(evals) = 4 * Len(taus) + Len(ks) - (IF pc \in {"loop", "done"} /\ taus # <<>> THEN 4 ELSE 0)
        /\ \A n \in DOMAIN taus :
            LET r == RK4Ref(history[n], taus[n])
            IN  /\ \A i \in 1..4 : evals[4 * (n - 1) + i] = r.args[i]
                /\ history[n + 1] = r.new
                /\ times[n + 1] = FAdd(times[n], taus[n])
        /\ (pc = "done" /\ clamps > 0) => Last(taus) = T - times[Len(times) - 1]

C7_Witness ==
    /\ method = "RK4"
    /\ pc = "done"
    /\ Len(taus) >= 3
    /\ clamps = 1
    /\ Len(evals) = 4 * Len(taus)
    /\ Last(history) # State0

\* the two rhs arguments and the new state of one midpoint step
RK2Ref(s, h) ==
    LET k1  == Rhs(s)
        mid == VAdd(s, VScale(h, 2, k1))
        k2  == Rhs(mid)
    IN  [args |-> <<s, mid>>, new |-> VAdd(s, VScale(h, 1, k2))]

C9_ClampOnlyLastStep ==
    (Pos /\ IsRK) =>
        /\ clamps <= 1
        /\ 0 < tau /\ tau <= tau0
        /\ clamps = 0 => tau = tau0
        /\ \A i \in DOMAIN taus :
            /\ 0 < taus[i] /\ taus[i] <= tau0
            /\ taus[i] # tau0 => (i = Len(taus) /\ clamps = 1)
        /\ (clamps = 1 /\ pc \in {"loop", "done"}) =>
            /\ Last(taus) = tau
            /\ ~LoopTest(t, T)

C9_Witness ==
    /\ Pos /\ IsRK
    /\ pc = "done"
    /\ clamps = 1
    /\ Len(taus) >= 3
    /\ Last(taus) < tau0
    /\ \A i \in 1..(Len(taus) - 1) : taus[i] = tau0

\* C10: for tau > 0, T > 0 and an rhs that always returns, the loop ends:
\* it reaches DONE with t >= T (t = T in integrate_RK2 and integrate_RK4)
\* and stays there.
C10_Terminates ==
    <>[](/\ pc = "done"
         /\ t >= T
         /\ IsRK => t = T)

====
